---- MODULE Spec2Model ----
(***************************************************************************)
(* dir2exe: a packer that appends a directory tree and a main executable   *)
(* to a loader stub, and the loader that unpacks the trailer of its own    *)
(* file into a temporary directory, runs the main executable and removes   *)
(* the directory again.  Source: src/tools/dir2exe.c.                      *)
(*                                                                         *)
(* Strings are sequences of tokens: a token is a directory separator       *)
(* (backslash or slash) or a whole name component.  The code inspects      *)
(* strings only at separators, so names are kept atomic.  A file's         *)
(* content is a sequence of small integers.  The file system is a set of   *)
(* directories and a function from file paths to contents, both keyed by   *)
(* the normalised path (a sequence of names).                              *)
(*                                                                         *)
(* Three specifications share the actions:                                 *)
(*   Spec      the packer on small inputs, then one run of its product;    *)
(*   SpecLoad  one loader run on a file whose trailer anyone may have      *)
(*             written;                                                    *)
(*   SpecConc  the packer on one input, then two runs of its product       *)
(*             interleaved step by step.                                   *)
(*                                                                         *)
(* Paths stay far shorter than MAX_PATH, so the truncation snprintf would  *)
(* do on longer ones does not occur in the model.                          *)
(***************************************************************************)
EXTENDS Integers, Sequences, FiniteSets, TLC

VARIABLES
    input,          \* packer: argc, argv and the files argv names (fixed by Init)
    ppc,            \* packer: position in main
    out,            \* packer: bytes written to f_out so far (stub and payloads)
    manifest_head,  \* packer: the linked list of entries, head first
    wi,             \* packer: number of files walk_directory has handled
    pexit,          \* packer: exit code, NoExit while running
    archive,        \* the produced executable as the loader reads it
    ld,             \* loader: per process, the locals of main
    files,          \* file system: path -> content
    dirs,           \* file system: directories
    cwdHeld,        \* directories that are the working directory of a live process
    mayDetach       \* whether a child may leave a descendant running in its cwd

vars == <<input, ppc, out, manifest_head, wi, pexit, archive, ld, files, dirs,
          cwdHeld, mayDetach>>

packerVars == <<input, ppc, out, manifest_head, wi, pexit>>
fsVars == <<files, dirs, cwdHeld>>

------------------------------------------------------------------------------
(* Bounds of the model *)

MaxLen == 2          \* longest file content
MaxEntries == 2      \* most entries stored in a hand-made manifest
MaxChildCode == 2    \* child exit codes 0..MaxChildCode
FarOffset == 5000    \* an offset beyond the end of every modelled archive

(* Program constants *)

MAX_PATH == 260
BUFFER_SIZE == 1048576
FOOTER_SIZE == 16
ENTRY_SIZE == 17 + MAX_PATH
COUNT_SIZE == 8

BS == "\\"
FS == "/"
Sep == {BS, FS}
NoExit == 0 - 1
NonPayload == 0 - 1  \* a byte read from outside the stub and payload area

MAGIC_BYTES == <<"D", "I", "R", "2", "E", "X", "E", "NUL">>

Procs == {1, 2}
TempPath == <<"T">>                       \* GetTempPathA, without the trailing separator
TempNames == {"d2e1.tmp", "d2e2.tmp"}     \* names GetTempFileNameA may hand out

------------------------------------------------------------------------------
(* Sequences and strings *)

Fill(tag, n) == [k \in 1..n |-> tag]

IsPrefix(s, t) == Len(s) <= Len(t) /\ SubSeq(t, 1, Len(s)) = s

Front(s) == SubSeq(s, 1, Len(s) - 1)

\* The C string held in a buffer: the bytes before the first NUL.
RECURSIVE CStr(_)
CStr(buf) ==
    IF buf = <<>> \/ Head(buf) = "NUL" THEN <<>>
    ELSE <<Head(buf)>> \o CStr(Tail(buf))

\* a faulty variant: strncmp(a, b, 7) == 0
strcmp_prefix(a, b) == SubSeq(CStr(a), 1, 7) = SubSeq(CStr(b), 1, 7)

\* strcmp(a, b) == 0
strcmp_eq(a, b) == CStr(a) = CStr(b)

\* strrchr(s, c): index of the last c in s, 0 when there is none
RECURSIVE strrchr(_, _)
strrchr(s, c) ==
    IF s = <<>> THEN 0
    ELSE IF s[Len(s)] = c THEN Len(s)
    ELSE strrchr(Front(s), c)

\* Win32 path normalisation: separators of both kinds split the path, empty
\* components vanish, ".." removes the component before it.
RECURSIVE CanonFrom(_, _)
CanonFrom(s, acc) ==
    IF s = <<>> THEN acc
    ELSE IF Head(s) \in Sep THEN CanonFrom(Tail(s), acc)
    ELSE IF Head(s) = ".." THEN
        CanonFrom(Tail(s), IF acc = <<>> THEN acc ELSE Front(acc))
    ELSE CanonFrom(Tail(s), Append(acc, Head(s)))

Canon(s) == CanonFrom(s, <<>>)

------------------------------------------------------------------------------
(* The file system calls the loader makes *)

\* The executable images of running children: Windows keeps them locked.
Locked == {Canon(ld[q].main_exe_path) : q \in {r \in Procs : ld[r].pc = "wait"}}

Children(path, F, D) ==
    {c \in (DOMAIN F) \cup D : c # <<>> /\ Front(c) = path}

\* CreateDirectoryA(path, NULL): the new set of directories
CreateDirectoryA(path, D) ==
    LET c == Canon(path)
    IN  IF c # <<>> /\ Front(c) \in D /\ c \notin D /\ c \notin DOMAIN files
        THEN D \cup {c} ELSE D

\* DeleteFileA(path): the new file map
DeleteFileA(path, F) ==
    LET c == Canon(path)
    IN  IF c \in DOMAIN F /\ c \notin Locked
        THEN [x \in (DOMAIN F) \ {c} |-> F[x]] ELSE F

\* RemoveDirectoryA(path) succeeds on an empty directory nobody works in.
RemoveDirectoryOk(c, F, D) ==
    c \in D /\ Children(c, F, D) = {} /\ c \notin cwdHeld

\* fopen(path, "wb") succeeds
fopen_wb_ok(path, D) ==
    LET c == Canon(path)
    IN  /\ c # <<>>
        /\ path[Len(path)] \notin Sep
        /\ Front(c) \in D
        /\ c \notin D
        /\ c \notin Locked

\* recursive_delete_directory(path) on the file map F and directories D:
\* the file system afterwards and the BOOL it returns.
RECURSIVE recursive_delete_directory(_, _, _)
RECURSIVE DeleteEach(_, _, _)
DeleteEach(S, F, D) ==
    IF S = {} THEN [files |-> F, dirs |-> D]
    ELSE LET c == CHOOSE x \in S : TRUE
             r == IF c \in D THEN recursive_delete_directory(c, F, D)
                  ELSE [files |-> DeleteFileA(c, F), dirs |-> D]
         IN  DeleteEach(S \ {c}, r.files, r.dirs)

recursive_delete_directory(path, F, D) ==
    LET c == Canon(path)
    IN  IF c \notin D THEN [files |-> F, dirs |-> D, ok |-> FALSE]
        ELSE LET st == DeleteEach(Children(c, F, D), F, D)
                 ok == RemoveDirectoryOk(c, st.files, st.dirs)
             IN  [files |-> st.files,
                  dirs  |-> IF ok THEN st.dirs \ {c} ELSE st.dirs,
                  ok    |-> ok]

------------------------------------------------------------------------------
(* The archive as the loader reads it *)

NoArchive ==
    [exists |-> FALSE, data |-> <<>>, manifest_offset |-> 0, entry_count |-> 0,
     entries |-> <<>>, magic |-> MAGIC_BYTES]

ManifestEntry(off, sz, exe, rel) ==
    [offset |-> off, size |-> sz, is_executable |-> exe, relative_path |-> rel]

FileLength(a) ==
    a.manifest_offset + COUNT_SIZE + Len(a.entries) * ENTRY_SIZE + FOOTER_SIZE

\* fread of n bytes at position pos of the loader's own file
ReadAt(pos, n) ==
    [k \in 1..n |-> IF pos + k <= Len(archive.data)
                    THEN archive.data[pos + k] ELSE NonPayload]

\* the copy loop of the extraction, one buffer at a time
RECURSIVE CopyLoop(_, _, _)
CopyLoop(pos, remaining, acc) ==
    IF remaining > 0
    THEN LET to_read == IF remaining > BUFFER_SIZE THEN BUFFER_SIZE ELSE remaining
         IN  CopyLoop(pos + to_read, remaining - to_read, acc \o ReadAt(pos, to_read))
    ELSE acc

\* the loop that creates the subdirectories of out_path, from index k on
RECURSIVE MakeSubdirs(_, _, _)
MakeSubdirs(out_path, k, D) ==
    IF k > Len(out_path) THEN [path |-> out_path, dirs |-> D]
    ELSE IF out_path[k] \in Sep
         THEN MakeSubdirs([out_path EXCEPT ![k] = BS], k + 1,
                          CreateDirectoryA(SubSeq(out_path, 1, k - 1), D))
         ELSE MakeSubdirs(out_path, k + 1, D)

\* What an uninitialised 64-bit field may hold
Indeterminate == {0, FarOffset}

\* What a manifest slot holds that fread did not fill
IndeterminateEntries ==
    {ManifestEntry(o, 0, 0, <<"junk">>) : o \in Indeterminate}

------------------------------------------------------------------------------
(* LOADER: main, one action per step, for process p *)

LoaderInit ==
    [pc |-> "off", opened |-> FALSE, entry_count |-> 0, manifest |-> <<>>,
     temp_dir |-> <<>>, rootCreated |-> FALSE, i |-> 0, main_exe_path |-> <<>>,
     exit_code |-> NoExit, started |-> FALSE, image |-> <<>>,
     childCode |-> NoExit, cleaned |-> FALSE, removed |-> FALSE]

Upd(p, r) == ld' = [ld EXCEPT ![p] = r]

\* fopen(self_path, "rb")
OpenSelf(p) ==
    /\ ld[p].pc = "start"
    /\ archive.exists
    /\ \E ok \in BOOLEAN :
         Upd(p, IF ok THEN [ld[p] EXCEPT !.pc = "footer", !.opened = TRUE]
                ELSE [ld[p] EXCEPT !.pc = "done", !.exit_code = 1])
    /\ UNCHANGED <<packerVars, archive, fsVars, mayDetach>>

\* 1. read the footer and compare the magic
ReadFooter(p) ==
    /\ ld[p].pc = "footer"
    /\ Upd(p, IF ~strcmp_eq(archive.magic, MAGIC_BYTES)
              THEN [ld[p] EXCEPT !.pc = "done", !.exit_code = 2]
              ELSE [ld[p] EXCEPT !.pc = "manifest"])
    /\ UNCHANGED <<packerVars, archive, fsVars, mayDetach>>

\* 2. read entry_count and the entries
ReadManifest(p) ==
    /\ ld[p].pc = "manifest"
    /\ \E g \in IndeterminateEntries :
         LET n == archive.entry_count
             have == Len(archive.entries)
             m == IF n <= have THEN SubSeq(archive.entries, 1, n)
                  ELSE archive.entries \o Fill(g, n - have)
         IN  Upd(p, [ld[p] EXCEPT !.pc = "temp", !.entry_count = n, !.manifest = m])
    /\ UNCHANGED <<packerVars, archive, fsVars, mayDetach>>

\* 3. GetTempPathA, GetTempFileNameA: a name no file or directory has, created as a file
GetTempFileNameA(p) ==
    /\ ld[p].pc = "temp"
    /\ \E n \in TempNames :
         LET c == TempPath \o <<n>>
         IN  /\ c \notin DOMAIN files
             /\ c \notin dirs
             /\ files' = (c :> <<>>) @@ files
             /\ Upd(p, [ld[p] EXCEPT !.pc = "delete",
                                     !.temp_dir = TempPath \o <<BS, n>>])
    /\ UNCHANGED <<packerVars, archive, dirs, cwdHeld, mayDetach>>

\* DeleteFileA(temp_dir)
DeleteTempFile(p) ==
    /\ ld[p].pc = "delete"
    /\ files' = DeleteFileA(ld[p].temp_dir, files)
    /\ Upd(p, [ld[p] EXCEPT !.pc = "mkdir"])
    /\ UNCHANGED <<packerVars, archive, dirs, cwdHeld, mayDetach>>

\* CreateDirectoryA(temp_dir, NULL)
CreateTempDir(p) ==
    /\ ld[p].pc = "mkdir"
    /\ dirs' = CreateDirectoryA(ld[p].temp_dir, dirs)
    /\ Upd(p, [ld[p] EXCEPT !.pc = "extract", !.rootCreated = (dirs' # dirs)])
    /\ UNCHANGED <<packerVars, archive, files, cwdHeld, mayDetach>>

\* 4. one iteration of the extraction loop
ExtractEntry(p) ==
    /\ ld[p].pc = "extract"
    /\ ld[p].i < ld[p].entry_count
    /\ LET e == ld[p].manifest[ld[p].i + 1]
           out_path0 == ld[p].temp_dir \o <<BS>> \o e.relative_path
           sub == MakeSubdirs(out_path0, Len(ld[p].temp_dir) + 2, dirs)
           out_path == sub.path
       IN  /\ dirs' = sub.dirs
           /\ IF fopen_wb_ok(out_path, sub.dirs)
              THEN /\ files' = (Canon(out_path) :> CopyLoop(e.offset, e.size, <<>>))
                                 @@ files
                   /\ Upd(p, [ld[p] EXCEPT
                                !.i = @ + 1,
                                !.main_exe_path =
                                    IF e.is_executable # 0 THEN out_path ELSE @])
              ELSE /\ files' = files
                   /\ Upd(p, [ld[p] EXCEPT !.i = @ + 1])
    /\ UNCHANGED <<packerVars, archive, cwdHeld, mayDetach>>

\* the loop ends: free(buffer), fclose(f_self)
EndExtract(p) ==
    /\ ld[p].pc = "extract"
    /\ ~(ld[p].i < ld[p].entry_count)
    /\ Upd(p, [ld[p] EXCEPT !.pc = "launch"])
    /\ UNCHANGED <<packerVars, archive, fsVars, mayDetach>>

\* CreateProcessA can succeed: the image is a non-empty file and the working
\* directory exists.  Whether it does succeed is up to the image.
CanStart(p) ==
    LET c == Canon(ld[p].main_exe_path)
    IN  /\ c \in DOMAIN files
        /\ files[c] # <<>>
        /\ Canon(ld[p].temp_dir) \in dirs

\* 5. exit_code = 1; CreateProcessA when main_exe_path is not empty
Launch(p) ==
    /\ ld[p].pc = "launch"
    /\ IF Len(ld[p].main_exe_path) > 0
       THEN \E ok \in BOOLEAN :
              IF ok /\ CanStart(p)
              THEN Upd(p, [ld[p] EXCEPT !.pc = "wait", !.exit_code = 1,
                                        !.started = TRUE,
                                        !.image = files[Canon(ld[p].main_exe_path)]])
              ELSE Upd(p, [ld[p] EXCEPT !.pc = "cleanup", !.exit_code = 1])
       ELSE Upd(p, [ld[p] EXCEPT !.pc = "cleanup", !.exit_code = 1])
    /\ UNCHANGED <<packerVars, archive, fsVars, mayDetach>>

\* a faulty variant: the child's exit code is not fetched
ChildExit_lost(p) ==
    /\ ld[p].pc = "wait"
    /\ \E c \in 0..MaxChildCode :
         Upd(p, [ld[p] EXCEPT !.pc = "cleanup", !.childCode = c])
    /\ UNCHANGED <<packerVars, archive, fsVars, mayDetach>>

\* WaitForSingleObject returns, GetExitCodeProcess.  The child may have left a
\* descendant running whose working directory is still temp_dir.
ChildExit(p) ==
    /\ ld[p].pc = "wait"
    /\ \E c \in 0..MaxChildCode :
         Upd(p, [ld[p] EXCEPT !.pc = "cleanup", !.exit_code = c, !.childCode = c])
    /\ \E detach \in {FALSE, mayDetach} :
         cwdHeld' = IF detach THEN cwdHeld \cup {Canon(ld[p].temp_dir)} ELSE cwdHeld
    /\ UNCHANGED <<packerVars, archive, files, dirs, mayDetach>>

\* a faulty variant: a failed removal is reported through the exit code
Cleanup_reports(p) ==
    /\ ld[p].pc = "cleanup"
    /\ LET r == recursive_delete_directory(ld[p].temp_dir, files, dirs)
       IN  /\ files' = r.files
           /\ dirs' = r.dirs
           /\ Upd(p, [ld[p] EXCEPT !.pc = "done", !.cleaned = TRUE,
                                   !.removed = r.ok,
                                   !.exit_code = IF r.ok THEN @ ELSE 1])
    /\ UNCHANGED <<packerVars, archive, cwdHeld, mayDetach>>

\* 6. recursive_delete_directory(temp_dir); return exit_code
Cleanup(p) ==
    /\ ld[p].pc = "cleanup"
    /\ LET r == recursive_delete_directory(ld[p].temp_dir, files, dirs)
       IN  /\ files' = r.files
           /\ dirs' = r.dirs
           /\ Upd(p, [ld[p] EXCEPT !.pc = "done", !.cleaned = TRUE,
                                   !.removed = r.ok])
    /\ UNCHANGED <<packerVars, archive, cwdHeld, mayDetach>>

LoaderStep(p) ==
    \/ OpenSelf(p)
    \/ ReadFooter(p)
    \/ ReadManifest(p)
    \/ GetTempFileNameA(p)
    \/ DeleteTempFile(p)
    \/ CreateTempDir(p)
    \/ ExtractEntry(p)
    \/ EndExtract(p)
    \/ Launch(p)
    \/ ChildExit(p)
    \/ Cleanup(p)

------------------------------------------------------------------------------
(* Loader runs on files anyone may have made *)

NoInput ==
    [argc |-> 0, pack_dir |-> <<>>, main_exe |-> <<>>,
     main_file |-> [bytes |-> <<>>, readable |-> FALSE],
     loader |-> [bytes |-> <<>>, readable |-> FALSE], out_ok |-> FALSE]

EmptyFiles == [x \in {} |-> <<>>]

FsInit ==
    /\ files = EmptyFiles
    /\ dirs = {<<>>, TempPath}
    /\ cwdHeld = {}

BadMagics ==
    {<<"X", "I", "R", "2", "E", "X", "E", "NUL">>,
     <<"D", "I", "R", "2", "E", "X", "E", "!">>}

AdvPaths == {<<"Game.exe">>, <<"sub", FS, "a.txt">>, <<"..", BS, "evil.exe">>}

AdvEntries ==
    {ManifestEntry(o, 1, x, r) : o \in {1, FarOffset}, x \in {0, 1}, r \in AdvPaths}

AdvArchives ==
    {[exists |-> TRUE, data |-> <<7, 5>>, manifest_offset |-> 2,
      entry_count |-> Len(es) + extra, entries |-> es, magic |-> m] :
        es \in UNION {[1..n -> AdvEntries] : n \in 0..MaxEntries},
        extra \in {0, 1},
        m \in {MAGIC_BYTES} \cup BadMagics}

InitLoad ==
    /\ input = NoInput
    /\ ppc = "off"
    /\ out = <<>>
    /\ manifest_head = <<>>
    /\ wi = 0
    /\ pexit = NoExit
    /\ archive \in AdvArchives
    /\ ld = [p \in Procs |-> IF p = 1 THEN [LoaderInit EXCEPT !.pc = "start"]
                             ELSE LoaderInit]
    /\ FsInit
    /\ mayDetach = TRUE

NextLoad == \E p \in Procs : LoaderStep(p)

SpecLoad == InitLoad /\ [][NextLoad]_vars

------------------------------------------------------------------------------
(* Claims about the loader, checked under SpecLoad *)

FsUntouched == files = EmptyFiles /\ dirs = {<<>>, TempPath}

\* C2: nothing is created outside an extraction root, whatever the manifest says.
C2_NoEscape ==
    \A x \in ((DOMAIN files) \cup dirs) \ {<<>>, TempPath} :
        \E p \in Procs :
            /\ ld[p].temp_dir # <<>>
            /\ IsPrefix(Canon(ld[p].temp_dir), x)

\* C3: a footer whose magic is not the signature ends the loader with exit
\* code 2, with no temporary directory, no extracted file and no child.
C3_BadMagicExits2 ==
    \A p \in Procs :
        (ld[p].opened /\ archive.magic # MAGIC_BYTES) =>
            /\ ld[p].pc \in {"footer", "done"}
            /\ ld[p].pc = "done" => ld[p].exit_code = 2
            /\ ld[p].temp_dir = <<>>
            /\ ~ld[p].rootCreated
            /\ ld[p].i = 0
            /\ ~ld[p].started
            /\ FsUntouched

C3_Witness ==
    /\ ld[1].pc = "done"
    /\ ld[1].opened
    /\ archive.magic # MAGIC_BYTES
    /\ ld[1].exit_code = 2

\* the manifest a process has read describes the file it came from
ValidManifest(p) ==
    /\ ld[p].entry_count <= Len(archive.entries)
    /\ \A k \in 1..Len(ld[p].manifest) :
         ld[p].manifest[k].offset + ld[p].manifest[k].size <= FileLength(archive)

\* C4: a manifest with an entry count or an entry range outside the file makes
\* the loader exit with code 2 before it creates or extracts anything.
C4_ManifestValidated ==
    \A p \in Procs :
        (ld[p].pc \in {"temp", "delete", "mkdir", "extract", "launch", "wait",
                       "cleanup", "done"}
           /\ ld[p].opened /\ archive.magic = MAGIC_BYTES /\ ~ValidManifest(p)) =>
            /\ ld[p].pc = "done"
            /\ ld[p].exit_code = 2
            /\ FsUntouched

NoFlaggedEntry(p) ==
    \A k \in 1..Len(ld[p].manifest) : ld[p].manifest[k].is_executable = 0

C8_CleanupAlways ==
    /\ [](\A p \in Procs :
            /\ (ld[p].pc = "done" /\ ld[p].rootCreated) => ld[p].cleaned
            /\ ld[p].cleaned => (ld[p].pc = "done" /\ ld[p].exit_code # NoExit))
    /\ [][\A p \in Procs :
            (ld[p].pc = "cleanup" /\ ld'[p].pc = "done") =>
                ld'[p].exit_code = ld[p].exit_code]_vars

C8_Witness ==
    /\ ld[1].pc = "done"
    /\ ld[1].rootCreated
    /\ ld[1].cleaned
    /\ ~ld[1].removed
    /\ ld[1].started
    /\ ld[1].exit_code = 0

------------------------------------------------------------------------------
(* PACKER *)

\* Directory listings as FindFirstFileA/FindNextFileA return them
File(n, b, r) ==
    [name |-> n, isDir |-> FALSE, bytes |-> b, readable |-> r, children |-> <<>>]
Dir(n, ch) ==
    [name |-> n, isDir |-> TRUE, bytes |-> <<>>, readable |-> TRUE, children |-> ch]
Dots == <<Dir(".", <<>>), Dir("..", <<>>)>>

\* walk_directory(base_path, current_path, ...): the files it hands to
\* append_file_to_archive, in order, each with the relative_path it records.
\* An empty listing is a directory FindFirstFileA cannot open.
RECURSIVE walk_directory(_, _)
walk_directory(listing, current_path) ==
    IF listing = <<>> THEN <<>>
    ELSE LET e == Head(listing)
             relative_path ==
                 current_path \o (IF Len(current_path) > 0 THEN <<BS>> ELSE <<>>)
                              \o <<e.name>>
             here == IF e.name = "." \/ e.name = ".." THEN <<>>
                     ELSE IF e.isDir THEN walk_directory(e.children, relative_path)
                     ELSE <<[relative_path |-> relative_path, file |-> e]>>
         IN  here \o walk_directory(Tail(listing), current_path)

Walked == walk_directory(input.pack_dir, <<>>)

\* append_file_to_archive(f_archive, file_path, entry): f_archive's content
\* and *entry afterwards.  o is f_archive's content before the call.
append_file_to_archive(o, file, entry) ==
    IF ~file.readable
    THEN [out |-> o, entry |-> [entry EXCEPT !.size = 0]]
    ELSE [out |-> o \o file.bytes,
          entry |-> [entry EXCEPT !.offset = Len(o), !.size = Len(file.bytes)]]

\* the relative_path main stores for the main executable
ExeName(main_exe) ==
    IF strrchr(main_exe, BS) # 0
    THEN SubSeq(main_exe, strrchr(main_exe, BS) + 1, Len(main_exe))
    ELSE main_exe

loaderVars == <<archive, ld, files, dirs, cwdHeld, mayDetach>>

\* argc check and fopen(out_exe, "wb")
PackerStart ==
    /\ ppc = "start"
    /\ IF input.argc # 4 \/ ~input.out_ok
       THEN ppc' = "done" /\ pexit' = 1
       ELSE ppc' = "stub" /\ pexit' = pexit
    /\ UNCHANGED <<input, out, manifest_head, wi, loaderVars>>

\* 1. the loader stub
WriteStub ==
    /\ ppc = "stub"
    /\ \E g \in Indeterminate :
         LET r == append_file_to_archive(out, input.loader,
                                         ManifestEntry(g, g, 0, <<>>))
         IN  /\ out' = r.out
             /\ IF r.entry.size = 0
                THEN ppc' = "done" /\ pexit' = 1
                ELSE ppc' = "walk" /\ pexit' = pexit
    /\ UNCHANGED <<input, manifest_head, wi, loaderVars>>

\* 2. walk_directory handles its next file: a new node at the head of the list
WalkFile ==
    /\ ppc = "walk"
    /\ wi < Len(Walked)
    /\ \E g \in Indeterminate :
         LET w == Walked[wi + 1]
             r == append_file_to_archive(out, w.file,
                                         ManifestEntry(g, g, 0, w.relative_path))
         IN  /\ out' = r.out
             /\ manifest_head' = <<r.entry>> \o manifest_head
    /\ wi' = wi + 1
    /\ UNCHANGED <<input, ppc, pexit, loaderVars>>

\* 3. the main executable
AppendMainExe ==
    /\ ppc = "walk"
    /\ wi = Len(Walked)
    /\ \E g \in Indeterminate :
         LET r == append_file_to_archive(out, input.main_file,
                     ManifestEntry(g, g, 1, ExeName(input.main_exe)))
         IN  /\ out' = r.out
             /\ manifest_head' = <<r.entry>> \o manifest_head
    /\ ppc' = "manifest"
    /\ UNCHANGED <<input, wi, pexit, loaderVars>>

\* 4. and 5. the manifest and the footer
WriteManifest ==
    /\ ppc = "manifest"
    /\ archive' = [exists |-> TRUE, data |-> out, manifest_offset |-> Len(out),
                   entry_count |-> Len(manifest_head), entries |-> manifest_head,
                   magic |-> MAGIC_BYTES]
    /\ ppc' = "done"
    /\ pexit' = 0
    /\ UNCHANGED <<input, out, manifest_head, wi, ld, files, dirs, cwdHeld, mayDetach>>

PackerStep ==
    \/ PackerStart
    \/ WriteStub
    \/ WalkFile
    \/ AppendMainExe
    \/ WriteManifest

------------------------------------------------------------------------------
(* Pack, then run the produced executable *)

Contents(tag) == {Fill(tag, n) : n \in 0..MaxLen}

Readme == {File("readme.txt", b, r) : b \in Contents(1), r \in BOOLEAN}
RootExe == {File("Game.exe", b, r) : b \in Contents(2), r \in BOOLEAN}

PackDirs ==
    {<<>>, Dots}
    \cup {Dots \o <<Dir("Content", Dots \o <<f>>)>> : f \in Readme}
    \cup {Dots \o <<Dir("Content", Dots \o <<f>>), g>> : f \in Readme, g \in RootExe}

MainExePaths == {<<"Game.exe">>, <<"bin", BS, "Game.exe">>, <<"bin", FS, "Game.exe">>}

Inputs ==
    [argc : {3, 4},
     pack_dir : PackDirs,
     main_exe : MainExePaths,
     main_file : [bytes : Contents(3), readable : BOOLEAN],
     loader : [bytes : Contents(7), readable : BOOLEAN],
     out_ok : BOOLEAN]

PackerInit ==
    /\ ppc = "start"
    /\ out = <<>>
    /\ manifest_head = <<>>
    /\ wi = 0
    /\ pexit = NoExit
    /\ archive = NoArchive

Init ==
    /\ input \in Inputs
    /\ PackerInit
    /\ ld = [p \in Procs |-> IF p = 1 THEN [LoaderInit EXCEPT !.pc = "start"]
                             ELSE LoaderInit]
    /\ FsInit
    /\ mayDetach = TRUE

Next == PackerStep \/ \E p \in Procs : LoaderStep(p)

Spec == Init /\ [][Next]_vars

(* Two runs of one produced executable at the same time *)

ConcInput ==
    [argc |-> 4,
     pack_dir |-> Dots \o <<Dir("Content", Dots \o <<File("readme.txt", <<1>>, TRUE)>>)>>,
     main_exe |-> <<"Game.exe">>,
     main_file |-> [bytes |-> <<3>>, readable |-> TRUE],
     loader |-> [bytes |-> <<7>>, readable |-> TRUE],
     out_ok |-> TRUE]

InitConc ==
    /\ input = ConcInput
    /\ PackerInit
    /\ ld = [p \in Procs |-> [LoaderInit EXCEPT !.pc = "start"]]
    /\ FsInit
    /\ mayDetach = FALSE

SpecConc == InitConc /\ [][Next]_vars

------------------------------------------------------------------------------
(* Claims about the packer and the round trip, checked under Spec *)

Max(a, b) == IF a > b THEN a ELSE b

\* a path with its directory components stripped, for either separator
BaseName(s) == SubSeq(s, Max(strrchr(s, BS), strrchr(s, FS)) + 1, Len(s))

Flagged(es) == {k \in 1..Len(es) : es[k].is_executable # 0}

\* where the loader puts the entry with relative path rel
Target(p, rel) == Canon(ld[p].temp_dir \o <<BS>> \o rel)

\* C1: once the loader has extracted the archive the packer built, every file
\* the walker found is at its relative path under the extraction root with the
\* bytes it had when it was packed.
C1_RoundTrip ==
    (pexit = 0 /\ ld[1].pc = "launch" /\ ld[1].rootCreated) =>
        \A k \in 1..Len(Walked) :
            /\ Target(1, Walked[k].relative_path) \in DOMAIN files
            /\ files[Target(1, Walked[k].relative_path)] = Walked[k].file.bytes

\* C6: a produced archive flags exactly one entry, under the base filename of
\* the main executable path.
C6_OneExecutable ==
    pexit = 0 =>
        /\ Cardinality(Flagged(archive.entries)) = 1
        /\ \A k \in Flagged(archive.entries) :
             archive.entries[k].relative_path = BaseName(input.main_exe)

\* C9: every entry of a produced archive lies between the end of the loader
\* stub and the manifest, the zero-size entries of unopened files included.
C9_EntriesInPayload ==
    pexit = 0 =>
        \A k \in 1..Len(archive.entries) :
            /\ Len(input.loader.bytes) <= archive.entries[k].offset
            /\ archive.entries[k].offset + archive.entries[k].size
                  <= archive.manifest_offset

\* C10: the image the loader launches is the main executable as it was packed.
C10_LaunchesMainExe ==
    (pexit = 0 /\ input.main_file.readable /\ ld[1].pc = "wait") =>
        ld[1].image = input.main_file.bytes

------------------------------------------------------------------------------
(* Claim about concurrent runs, checked under SpecConc *)

InUse(p) == ld[p].pc \in {"extract", "launch", "wait", "cleanup"}

UnderTemp == {x \in (DOMAIN files) \cup dirs : IsPrefix(TempPath, x) /\ x # TempPath}

\* C5: two runs never work in the same extraction directory, and when both
\* have finished nothing of theirs is left in the temp area.
C5_Isolated ==
    /\ \A p, q \in Procs :
         (p # q /\ InUse(p) /\ InUse(q)) => ld[p].temp_dir # ld[q].temp_dir
    /\ (\A p \in Procs : ld[p].pc = "done") => UnderTemp = {}

====
